---- MODULE Spec2Model ----
(***************************************************************************)
(* Model of launch_dashboard.pyw, the NennerEngine dashboard + alert       *)
(* monitor launcher, and of the operating-system objects it acts on: the   *)
(* process table, the PID ledger file .launcher_pids and port 8050.        *)
(*                                                                         *)
(* Every launcher invocation (a double-click) is one run of the script.    *)
(* A launcher's position in the script is pc[l]; one action is one         *)
(* system-call-sized step of the script, so that two launchers started     *)
(* close together interleave the way two processes do.                     *)
(*                                                                         *)
(* The script is a Windows program (E:\ paths at lines 20-22, powershell   *)
(* at line 53, pythonw.exe at line 28), so the file and process semantics  *)
(* are those of Python on Windows: os.remove of a file another process     *)
(* holds open raises PermissionError, a process identifier is not reused   *)
(* while a handle to the process is open, and os.kill(pid, 9) ends the     *)
(* process with exit status 9.                                             *)
(***************************************************************************)
EXTENDS Integers, Sequences, FiniteSets, TLC

\* -------------------------------------------------------------- bounds

\* Launcher invocations in one behaviour.
NumLaunchers == 2

\* The number of process identifiers the operating system hands out.
MaxPid == 4

\* The smallest of them; identifiers of one and of two digits occur.
FirstPid == 8

\* Records of a ledger found on disk by the first launcher.
MaxLedgerLen == 2

\* Unrelated processes alive at the same time.
MaxOther == 1

Launchers == 1..NumLaunchers

PIDs == FirstPid..(FirstPid + MaxPid - 1)

\* ------------------------------------------------------ program constants

\* The signal of os.kill(pid, 9); on Windows it becomes the exit status.
KillSig == 9

\* Exit status of a process ended by Stop-Process -Force (TerminateProcess
\* with status -1).
StopProcessStatus == 0 - 1

\* Exit status of the interpreter after an uncaught exception.
UncaughtExit == 1

\* Exit status of the interpreter when the script runs off its end.
NormalExit == 0

\* Exit statuses a child chooses itself (clean, error).
ChildExitCodes == {0, 1}

\* ------------------------------------------------- text of the ledger file

DigitChars == <<"0", "1", "2", "3", "4", "5", "6", "7", "8", "9">>

IsDigit(c) == \E i \in 1..10 : DigitChars[i] = c

DigitVal(c) == (CHOOSE i \in 1..10 : DigitChars[i] = c) - 1

IsSpace(c) == c \in {" ", "\n", "\t", "\r"}

RECURSIVE ToStr(_)
\* str(n) of a natural number, as f"{pid}" formats it.
ToStr(n) ==
    IF n < 10 THEN <<DigitChars[n + 1]>>
    ELSE ToStr(n \div 10) \o <<DigitChars[(n % 10) + 1]>>

\* One record as save_pids writes it: f"{pid}\n".
FormatPid(pid) == ToStr(pid) \o <<"\n">>

RECURSIVE LStrip(_)
LStrip(s) == IF s # <<>> /\ IsSpace(Head(s)) THEN LStrip(Tail(s)) ELSE s

RECURSIVE RStrip(_)
RStrip(s) ==
    IF s # <<>> /\ IsSpace(s[Len(s)]) THEN RStrip(SubSeq(s, 1, Len(s) - 1)) ELSE s

\* line.strip()
Strip(s) == RStrip(LStrip(s))

\* Whether int(s) returns (a run of decimal digits) or raises ValueError.
IsIntLiteral(s) == s # <<>> /\ \A i \in 1..Len(s) : IsDigit(s[i])

RECURSIVE IntOf(_)
\* int(s) of a run of decimal digits.
IntOf(s) ==
    IF s = <<>> THEN 0
    ELSE 10 * IntOf(SubSeq(s, 1, Len(s) - 1)) + DigitVal(s[Len(s)])

RECURSIVE TextWrite(_)
\* What a file opened in text mode puts on disk for the string s: every
\* "\n" becomes os.linesep, which is "\r\n" on Windows.
TextWrite(s) ==
    IF s = <<>> THEN <<>>
    ELSE (IF Head(s) = "\n" THEN <<"\r", "\n">> ELSE <<Head(s)>>)
             \o TextWrite(Tail(s))

RECURSIVE TextRead(_)
\* What a file opened in text mode returns for the disk text s: "\r\n"
\* becomes "\n" (no "\r" stands alone in a ledger).
TextRead(s) ==
    IF s = <<>> THEN <<>>
    ELSE IF Len(s) >= 2 /\ s[1] = "\r" /\ s[2] = "\n"
         THEN <<"\n">> \o TextRead(SubSeq(s, 3, Len(s)))
         ELSE <<Head(s)>> \o TextRead(Tail(s))

RECURSIVE Contents(_)
\* The text of a file given as its lines.
Contents(lines) ==
    IF lines = <<>> THEN <<>> ELSE Head(lines) \o Contents(Tail(lines))

RECURSIVE SplitLines(_, _)
\* The lines of a text, each with its line end; `line` is the line begun.
SplitLines(text, line) ==
    IF text = <<>> THEN (IF line = <<>> THEN <<>> ELSE <<line>>)
    ELSE IF Head(text) = "\n"
         THEN <<Append(line, "\n")>> \o SplitLines(Tail(text), <<>>)
         ELSE SplitLines(Tail(text), Append(line, Head(text)))

\* A write of `data` at offset 0 into a file that holds `old`: what lies
\* beyond the written bytes stays.
Overwrite(data, old) == data \o SubSeq(old, Len(data) + 1, Len(old))

\* The lines a ledger on disk may hold: PIDs as save_pids writes them, and
\* lines no launcher wrote (a corrupt ledger).
MalformedLines == {<<"x", "\n">>, <<"\n">>}

LedgerLines == {TextWrite(FormatPid(p)) : p \in PIDs} \cup MalformedLines

\* The ledger file: whether the path exists and, when it does, its lines as
\* they are on disk.
Absent == [exists |-> FALSE, lines |-> <<>>]

File(lines) == [exists |-> TRUE, lines |-> lines]

RECURSIVE SeqsUpTo(_, _)
SeqsUpTo(S, n) ==
    IF n = 0 THEN {<<>>}
    ELSE LET shorter == SeqsUpTo(S, n - 1)
         IN  shorter \cup {Append(q, x) : q \in shorter, x \in S}

\* Ledgers a prior session, or a fault, may have left on disk.
InitLedgers == {Absent} \cup {File(q) : q \in SeqsUpTo(LedgerLines, MaxLedgerLen)}

\* ---------------------------------------------------------------- state

VARIABLES
    pc,          \* pc[l]: the launcher's position in the script
    ledger,      \* the file PID_PATH
    proc,        \* the process table: proc[p] is the process with identifier p
    portHolder,  \* the process listening on PORT, 0 when none
    dashboard_proc,  \* dashboard_proc.pid of launcher l, 0 before the spawn
    monitor_proc,    \* monitor_proc.pid of launcher l, 0 before the spawn
    snap,        \* records the reaper of l read from the ledger
    buf,         \* those of them it has still to handle
    tried,       \* identifiers the reaper of l has called os.kill on
    reclaim,     \* what the port command of the reaper of l did
    log_file,    \* whether log_file of launcher l is open
    returncode,  \* dashboard_proc.returncode: <<>> until wait() returned
    exitCode,    \* exit status of launcher l: <<>> while it has none
    writer,      \* the launcher whose save_pids opened the ledger last, 0
                 \* for a ledger no launcher of this behaviour wrote
    kept,        \* kept[l]: the os.remove of l's teardown raised
    apc,         \* position of the alert monitor launcher in its script
    alert_proc   \* proc.pid of the alert monitor launcher, 0 before the spawn

vars == <<pc, ledger, proc, portHolder, dashboard_proc, monitor_proc, snap,
          buf, tried, reclaim, log_file, returncode, exitCode, writer, kept,
          apc, alert_proc>>

Free == [kind |-> "free", owner |-> 0, status |-> 0]

\* A launcher that has been started and has not ended holds its handles.
Ended(l) == pc[l] \in {"done", "failed", "killed"}

Running(l) == pc[l] # "idle" /\ ~Ended(l)

Alive(p) == proc[p].kind \in {"dash", "mon", "amon", "other"}

FreePids == {p \in PIDs : proc[p].kind = "free"}

\* kill_stale holds the ledger open inside its with block (lines 39-45),
\* save_pids inside its own (lines 66-68).
HoldsLedger(l) == pc[l] \in {"ks_read", "save_write"}

OpenByOther(l) == \E m \in Launchers \ {l} : HoldsLedger(m)

\* ----------------------------------------------------- operating system

\* The owner recorded for the child of the alert monitor launcher.
AlertLauncher == NumLaunchers + 1

\* Whether the process that spawned a child still holds its Popen object:
\* a dashboard launcher that runs, or the alert monitor launcher in wait().
HandleHeld(o) ==
    IF o \in Launchers THEN Running(o) ELSE o = AlertLauncher /\ apc = "wait"

\* The process table after process p ended with exit status c. While the
\* launcher that spawned p runs it holds a handle to p (the Popen object):
\* the identifier stays taken, and the dashboard's status stays readable.
AfterExit(pt, p, c) ==
    LET o == pt[p].owner
    IN  IF HandleHeld(o)
        THEN [pt EXCEPT ![p] = [kind |-> "zombie", owner |-> o,
                                status |-> IF /\ o \in Launchers
                                              /\ p = dashboard_proc[o]
                                              /\ returncode[o] = <<>>
                                           THEN c ELSE 0]]
        ELSE [pt EXCEPT ![p] = Free]

\* Process p ends with exit status c; the port it listened on is released.
ExitProcess(p, c) ==
    /\ proc' = AfterExit(proc, p, c)
    /\ portHolder' = IF portHolder = p THEN 0 ELSE portHolder

\* The process table once launcher l has ended: its handles are closed, so
\* the identifiers of its exited children are free again.
AfterLauncherEnd(pt, l) ==
    [p \in PIDs |-> IF pt[p].kind = "zombie" /\ pt[p].owner = l THEN Free ELSE pt[p]]

\* os.kill(pid, 9). It raises OSError (no such process, or access denied
\* for an exited process whose handle is still held, or for a process of
\* another account) and otherwise ends the process with status 9.
\* `granted` is the operating system's answer for an unrelated process.
OsKill(pid, granted) ==
    IF pid \in PIDs /\ (proc[pid].kind \in {"dash", "mon", "amon"}
                         \/ (proc[pid].kind = "other" /\ granted))
    THEN ExitProcess(pid, KillSig)
    ELSE UNCHANGED <<proc, portHolder>>

\* No port command has run, or its outcome is of no interest any more.
NoReclaim == [outcome |-> "none", victim |-> 0, kind |-> "free"]

Init ==
    /\ pc = [l \in Launchers |-> "idle"]
    /\ ledger \in InitLedgers
    /\ proc = [p \in PIDs |-> Free]
    /\ portHolder = 0
    /\ dashboard_proc = [l \in Launchers |-> 0]
    /\ monitor_proc = [l \in Launchers |-> 0]
    /\ snap = [l \in Launchers |-> <<>>]
    /\ buf = [l \in Launchers |-> <<>>]
    /\ tried = [l \in Launchers |-> {}]
    /\ reclaim = [l \in Launchers |-> NoReclaim]
    /\ log_file = [l \in Launchers |-> FALSE]
    /\ returncode = [l \in Launchers |-> <<>>]
    /\ exitCode = [l \in Launchers |-> <<>>]
    /\ writer = 0
    /\ kept = [l \in Launchers |-> FALSE]
    /\ apc = "idle"
    /\ alert_proc = 0

\* ------------------------------------------------------------ kill_stale

\* The launcher is started and evaluates os.path.exists(PID_PATH), line 37.
\* Launchers are numbered in the order in which they are started.
Launch(l) ==
    /\ pc[l] = "idle"
    /\ \A m \in Launchers : m < l => pc[m] # "idle"
    /\ pc' = [pc EXCEPT ![l] = IF ledger.exists THEN "ks_open" ELSE "ks_port"]
    /\ UNCHANGED <<apc, alert_proc, writer, kept, ledger, proc, portHolder, dashboard_proc, monitor_proc,
                   snap, buf, tried, reclaim, log_file, returncode, exitCode>>

\* A reaper that goes on to the port without removing the ledger.
AfterLoopSkipsRemove == "ks_port"

\* Position after the read loop is left: the with block closes the file and
\* os.remove follows, whether the loop ended or an exception was swallowed.
AfterLoop == "ks_remove"

\* The lines iterating over the file yields.
ReadLines(lines) == [i \in 1..Len(lines) |-> TextRead(lines[i])]

\* open(PID_PATH) and the first read of the file, lines 39-40. The file
\* object reads the whole (short) file into its buffer. A file that another
\* launcher removed since line 37 raises FileNotFoundError, swallowed at
\* line 46.
kill_stale_open(l) ==
    /\ pc[l] = "ks_open"
    /\ IF ledger.exists /\ ledger.lines # <<>>
       THEN /\ buf' = [buf EXCEPT ![l] = ReadLines(ledger.lines)]
            /\ snap' = [snap EXCEPT ![l] = ReadLines(ledger.lines)]
            /\ pc' = [pc EXCEPT ![l] = "ks_read"]
       ELSE /\ buf' = [buf EXCEPT ![l] = <<>>]
            /\ snap' = [snap EXCEPT ![l] = <<>>]
            /\ pc' = [pc EXCEPT ![l] = AfterLoop]
    /\ tried' = [tried EXCEPT ![l] = {}]
    /\ UNCHANGED <<apc, alert_proc, writer, kept, ledger, proc, portHolder, dashboard_proc, monitor_proc,
                   reclaim, log_file, returncode, exitCode>>

\* Whether the loop body runs os.kill for this record: int(line.strip())
\* returned. A ValueError leaves the loop through the except of line 46.
Parses(line) == IsIntLiteral(Strip(line))

\* A loop that is left after its first record.
RestAfterStops(records) == <<>>

\* The records still to handle after this one.
RestAfter(records) == IF Parses(Head(records)) THEN Tail(records) ELSE <<>>

\* One pass of the loop body, lines 40-45.
kill_stale_line(l) ==
    /\ pc[l] = "ks_read"
    /\ buf[l] # <<>>
    /\ LET line == Head(buf[l])
           rest == RestAfter(buf[l])
       IN  /\ IF Parses(line)
              THEN /\ \E granted \in BOOLEAN : OsKill(IntOf(Strip(line)), granted)
                   /\ tried' = [tried EXCEPT ![l] = @ \cup {IntOf(Strip(line))}]
              ELSE UNCHANGED <<proc, portHolder, tried>>
           /\ buf' = [buf EXCEPT ![l] = rest]
           /\ pc' = [pc EXCEPT ![l] = IF rest = <<>> THEN AfterLoop ELSE "ks_read"]
    /\ UNCHANGED <<apc, alert_proc, writer, kept, ledger, dashboard_proc, monitor_proc, snap, reclaim,
                   log_file, returncode, exitCode>>

\* The launcher dies of an uncaught exception: the interpreter prints the
\* traceback and exits with status 1, closing what the launcher held open.
Crash(l) ==
    /\ pc' = [pc EXCEPT ![l] = "failed"]
    /\ exitCode' = [exitCode EXCEPT ![l] = <<UncaughtExit>>]
    /\ log_file' = [log_file EXCEPT ![l] = FALSE]
    /\ buf' = [buf EXCEPT ![l] = <<>>]
    /\ dashboard_proc' = [dashboard_proc EXCEPT ![l] = 0]
    /\ monitor_proc' = [monitor_proc EXCEPT ![l] = 0]

\* Whether os.remove(PID_PATH) removes the file: the path exists and no
\* other process holds the file open. Otherwise it raises FileNotFoundError
\* or, for a file in use, PermissionError.
CanRemove(l) == ledger.exists /\ ~OpenByOther(l)

\* os.remove(PID_PATH), line 48, outside every try block.
kill_stale_remove(l) ==
    /\ pc[l] = "ks_remove"
    /\ IF CanRemove(l)
       THEN /\ ledger' = Absent
            /\ writer' = 0
            /\ pc' = [pc EXCEPT ![l] = "ks_port"]
            /\ UNCHANGED <<exitCode, log_file, buf, proc, dashboard_proc,
                           monitor_proc, tried, reclaim, snap>>
       ELSE /\ Crash(l)
            /\ proc' = AfterLauncherEnd(proc, l)
            /\ tried' = [tried EXCEPT ![l] = {}]
            /\ snap' = [snap EXCEPT ![l] = <<>>]
            /\ UNCHANGED <<ledger, writer>>
    /\ UNCHANGED <<apc, alert_proc, portHolder, returncode, reclaim, kept>>

\* What the powershell command of lines 52-58 may do: run and stop the
\* owner of the port, or fail (powershell missing, access denied, more than
\* 5 seconds); every failure is swallowed at line 59.
ReclaimOutcomes == {"stopped", "unavailable", "denied", "timeout"}

\* A port command that stops nothing.
NeverReclaims(outcome) == FALSE

\* Whether the command stops the process that holds the port.
Reclaims(outcome) == outcome = "stopped"

\* A command without the -LocalPort filter: the owner of any connection.
AnyOwner ==
    IF \E p \in PIDs : Alive(p) THEN CHOOSE p \in PIDs : Alive(p) ELSE 0

\* The process Get-NetTCPConnection -LocalPort 8050 names as OwningProcess,
\* 0 when the port is not in use.
PortOwner == portHolder

\* A kill_stale that returns without the pause of line 61.
AfterPortSkipsSettle == "spawn_dash"

\* Position after the port command: time.sleep(1), line 61.
AfterPort == "ks_sleep"

\* Lines 51-60.
kill_stale_port(l) ==
    /\ pc[l] = "ks_port"
    /\ \E outcome \in ReclaimOutcomes :
         /\ IF Reclaims(outcome) /\ PortOwner # 0
            THEN ExitProcess(PortOwner, StopProcessStatus)
            ELSE UNCHANGED <<proc, portHolder>>
         /\ reclaim' = [reclaim EXCEPT ![l] =
                           [outcome |-> outcome, victim |-> PortOwner,
                            kind |-> IF PortOwner = 0 THEN "free"
                                     ELSE proc[PortOwner].kind]]
    /\ pc' = [pc EXCEPT ![l] = AfterPort]
    /\ snap' = [snap EXCEPT ![l] = <<>>]
    /\ tried' = [tried EXCEPT ![l] = {}]
    /\ UNCHANGED <<apc, alert_proc, writer, kept, ledger, dashboard_proc, monitor_proc, buf, log_file,
                   returncode, exitCode>>

\* time.sleep(1), line 61; kill_stale returns.
kill_stale_sleep(l) ==
    /\ pc[l] = "ks_sleep"
    /\ pc' = [pc EXCEPT ![l] = "spawn_dash"]
    /\ reclaim' = [reclaim EXCEPT ![l] = NoReclaim]
    /\ UNCHANGED <<apc, alert_proc, writer, kept, ledger, proc, portHolder, dashboard_proc, monitor_proc,
                   snap, buf, tried, log_file, returncode, exitCode>>

\* ------------------------------------------------- the launch sequence

\* What subprocess.Popen returns: the identifier of the new process, any
\* identifier the operating system has free, or 0 for a raised OSError.
SpawnResults == FreePids \cup {0}

\* Lines 75-82: the log file is opened and the dashboard is spawned. A
\* raised OSError is caught nowhere.
spawn_dashboard_proc(l) ==
    /\ pc[l] = "spawn_dash"
    /\ \E p \in SpawnResults :
         IF p # 0
         THEN /\ proc' = [proc EXCEPT ![p] = [kind |-> "dash", owner |-> l, status |-> 0]]
              /\ dashboard_proc' = [dashboard_proc EXCEPT ![l] = p]
              /\ pc' = [pc EXCEPT ![l] = "spawn_mon"]
              /\ log_file' = [log_file EXCEPT ![l] = TRUE]
              /\ UNCHANGED <<exitCode, buf, monitor_proc>>
         ELSE /\ Crash(l)
              /\ UNCHANGED proc
    /\ UNCHANGED <<apc, alert_proc, writer, kept, ledger, portHolder, snap, tried, reclaim, returncode>>

\* The process table after the monitor's spawn raised in launcher l: the
\* script has no handler, so nothing is done to the dashboard; the dying
\* launcher only closes its handles.
AfterFailedSpawn(pt, l) == AfterLauncherEnd(pt, l)

\* Lines 85-94: the monitor is spawned.
spawn_monitor_proc(l) ==
    /\ pc[l] = "spawn_mon"
    /\ \E p \in SpawnResults :
         IF p # 0
         THEN /\ proc' = [proc EXCEPT ![p] = [kind |-> "mon", owner |-> l, status |-> 0]]
              /\ monitor_proc' = [monitor_proc EXCEPT ![l] = p]
              /\ pc' = [pc EXCEPT ![l] = "save_open"]
              /\ UNCHANGED <<exitCode, buf, log_file, dashboard_proc>>
         ELSE /\ Crash(l)
              /\ proc' = AfterFailedSpawn(proc, l)
    /\ UNCHANGED <<apc, alert_proc, writer, kept, ledger, portHolder, snap, tried, reclaim, returncode>>

\* open(PID_PATH, "w"), line 66: the file is created or truncated.
save_pids_open(l) ==
    /\ pc[l] = "save_open"
    /\ ledger' = File(<<>>)
    /\ writer' = l
    /\ pc' = [pc EXCEPT ![l] = "save_write"]
    /\ UNCHANGED <<apc, alert_proc, kept, proc, portHolder, dashboard_proc, monitor_proc, snap, buf,
                   tried, reclaim, log_file, returncode, exitCode>>

\* What save_pids(dashboard_proc.pid, monitor_proc.pid) writes, line 97.
SavedRecords(l) == <<FormatPid(dashboard_proc[l]), FormatPid(monitor_proc[l])>>

\* The ledger after launcher l's buffered records were written: the write
\* goes to offset 0, where the file object stands since line 66. The file
\* is empty since then unless another launcher has written it meanwhile.
AfterWrite(l) ==
    File(SplitLines(Overwrite(TextWrite(Contents(SavedRecords(l))),
                              Contents(ledger.lines)), <<>>))

\* Lines 67-68 and the end of the with block: the buffered records reach
\* the file in one write when it is closed.
save_pids_write(l) ==
    /\ pc[l] = "save_write"
    /\ ledger' = AfterWrite(l)
    /\ pc' = [pc EXCEPT ![l] = "settle"]
    /\ UNCHANGED <<apc, alert_proc, writer, kept, proc, portHolder, dashboard_proc, monitor_proc, snap, buf,
                   tried, reclaim, log_file, returncode, exitCode>>

\* time.sleep(3) and webbrowser.open, lines 100-101.
settle_open_browser(l) ==
    /\ pc[l] = "settle"
    /\ pc' = [pc EXCEPT ![l] = "wait"]
    /\ UNCHANGED <<apc, alert_proc, writer, kept, ledger, proc, portHolder, dashboard_proc, monitor_proc,
                   snap, buf, tried, reclaim, log_file, returncode, exitCode>>

\* A wait that returns when either child has exited.
AnyChildExited(l) ==
    \/ proc[dashboard_proc[l]].kind = "zombie"
    \/ proc[monitor_proc[l]].kind = "zombie"

\* Whether dashboard_proc.wait() returns: the dashboard has exited.
PrimaryExited(l) == proc[dashboard_proc[l]].kind = "zombie"

\* dashboard_proc.wait(), line 104: returns once the dashboard has exited
\* and records its exit status.
dashboard_proc_wait(l) ==
    /\ pc[l] = "wait"
    /\ PrimaryExited(l)
    /\ returncode' = [returncode EXCEPT ![l] = <<proc[dashboard_proc[l]].status>>]
    /\ proc' = [proc EXCEPT ![dashboard_proc[l]].status = 0]
    /\ pc' = [pc EXCEPT ![l] = "terminate"]
    /\ UNCHANGED <<apc, alert_proc, writer, kept, ledger, portHolder, dashboard_proc, monitor_proc, snap,
                   buf, tried, reclaim, log_file, exitCode>>

\* A terminate that reaches no process.
NeverRuns(p) == FALSE

\* Whether the process behind the Popen handle has not exited yet.
StillRuns(p) == proc[p].kind = "mon"

\* monitor_proc.terminate(), line 105: TerminateProcess on the handle of the
\* monitor, with status 1; nothing happens when the monitor has exited.
monitor_proc_terminate(l) ==
    /\ pc[l] = "terminate"
    /\ IF StillRuns(monitor_proc[l])
       THEN ExitProcess(monitor_proc[l], 1)
       ELSE UNCHANGED <<proc, portHolder>>
    /\ pc' = [pc EXCEPT ![l] = "close_log"]
    /\ UNCHANGED <<apc, alert_proc, writer, kept, ledger, dashboard_proc, monitor_proc, snap, buf, tried,
                   reclaim, log_file, returncode, exitCode>>

\* log_file.close(), line 106.
log_file_close(l) ==
    /\ pc[l] = "close_log"
    /\ log_file' = [log_file EXCEPT ![l] = FALSE]
    /\ pc' = [pc EXCEPT ![l] = "rm_pid"]
    /\ UNCHANGED <<apc, alert_proc, writer, kept, ledger, proc, portHolder, dashboard_proc, monitor_proc,
                   snap, buf, tried, reclaim, returncode, exitCode>>

\* A launcher that ends with sys.exit(dashboard_proc.returncode).
PropagatedExit(l) == returncode[l][1]

\* The exit status of a launcher whose script ran to its end: the script
\* calls sys.exit nowhere.
FinalExit(l) == NormalExit

\* A teardown without the os.remove.
KeepsLedger(l) == ledger

\* The ledger after the os.remove of line 110, whose exceptions are
\* swallowed at lines 111-112.
AfterTeardownRemove(l) == IF CanRemove(l) THEN Absent ELSE ledger

\* Lines 109-112, and the end of the script.
remove_pid_file(l) ==
    /\ pc[l] = "rm_pid"
    /\ ledger' = AfterTeardownRemove(l)
    /\ writer' = IF ledger'.exists THEN writer ELSE 0
    /\ kept' = [kept EXCEPT ![l] = ~CanRemove(l)]
    /\ pc' = [pc EXCEPT ![l] = "done"]
    /\ exitCode' = [exitCode EXCEPT ![l] = <<FinalExit(l)>>]
    /\ proc' = AfterLauncherEnd(proc, l)
    /\ dashboard_proc' = [dashboard_proc EXCEPT ![l] = 0]
    /\ monitor_proc' = [monitor_proc EXCEPT ![l] = 0]
    /\ UNCHANGED <<apc, alert_proc, portHolder, snap, buf, tried, reclaim, log_file,
                   returncode>>

\* ---------------------------------------------------------- environment

\* The launcher process is killed from outside (task manager, logoff): it
\* runs no further line, and its handles are closed.
KillLauncher(l) ==
    /\ Running(l)
    /\ pc' = [pc EXCEPT ![l] = "killed"]
    /\ log_file' = [log_file EXCEPT ![l] = FALSE]
    /\ buf' = [buf EXCEPT ![l] = <<>>]
    /\ snap' = [snap EXCEPT ![l] = <<>>]
    /\ tried' = [tried EXCEPT ![l] = {}]
    /\ reclaim' = [reclaim EXCEPT ![l] = NoReclaim]
    /\ proc' = AfterLauncherEnd(proc, l)
    /\ dashboard_proc' = [dashboard_proc EXCEPT ![l] = 0]
    /\ monitor_proc' = [monitor_proc EXCEPT ![l] = 0]
    /\ returncode' = [returncode EXCEPT ![l] = <<>>]
    /\ UNCHANGED <<apc, alert_proc, writer, kept, ledger, portHolder, exitCode>>

\* A dashboard that has not bound the port yet binds it; when another
\* process holds the port the bind fails and the dashboard exits.
DashBind(p) ==
    /\ proc[p].kind = "dash"
    /\ portHolder # p
    /\ IF portHolder = 0
       THEN portHolder' = p /\ UNCHANGED proc
       ELSE ExitProcess(p, 1)
    /\ UNCHANGED <<apc, alert_proc, writer, kept, pc, ledger, dashboard_proc, monitor_proc, snap, buf, tried,
                   reclaim, log_file, returncode, exitCode>>

\* A dashboard or a monitor exits by itself.
ChildExit(p) ==
    /\ proc[p].kind \in {"dash", "mon", "amon"}
    /\ \E c \in ChildExitCodes : ExitProcess(p, c)
    /\ UNCHANGED <<apc, alert_proc, writer, kept, pc, ledger, dashboard_proc, monitor_proc, snap, buf, tried,
                   reclaim, log_file, returncode, exitCode>>

\* A process the launcher never spawned starts; it may listen on the port.
OtherStart(p) ==
    /\ proc[p].kind = "free"
    /\ Cardinality({q \in PIDs : proc[q].kind = "other"}) < MaxOther
    /\ proc' = [proc EXCEPT ![p] = [kind |-> "other", owner |-> 0, status |-> 0]]
    /\ \E binds \in BOOLEAN :
         portHolder' = IF binds /\ portHolder = 0 THEN p ELSE portHolder
    /\ UNCHANGED <<apc, alert_proc, writer, kept, pc, ledger, dashboard_proc, monitor_proc, snap, buf, tried,
                   reclaim, log_file, returncode, exitCode>>

OtherExit(p) ==
    /\ proc[p].kind = "other"
    /\ ExitProcess(p, 0)
    /\ UNCHANGED <<apc, alert_proc, writer, kept, pc, ledger, dashboard_proc, monitor_proc, snap, buf, tried,
                   reclaim, log_file, returncode, exitCode>>

\* -------------------------------------------------------- specifications

Step(l) ==
    \/ kill_stale_open(l)
    \/ kill_stale_line(l)
    \/ kill_stale_remove(l)
    \/ kill_stale_port(l)
    \/ kill_stale_sleep(l)
    \/ spawn_dashboard_proc(l)
    \/ spawn_monitor_proc(l)
    \/ save_pids_open(l)
    \/ save_pids_write(l)
    \/ settle_open_browser(l)
    \/ dashboard_proc_wait(l)
    \/ monitor_proc_terminate(l)
    \/ log_file_close(l)
    \/ remove_pid_file(l)
    \/ KillLauncher(l)

Env ==
    \E p \in PIDs : DashBind(p) \/ ChildExit(p) \/ OtherStart(p) \/ OtherExit(p)

\* Launchers may be started at any time, also while another one runs.
Next ==
    \/ \E l \in Launchers : Launch(l) \/ Step(l)
    \/ Env

Spec == Init /\ [][Next]_vars

\* One session at a time: a launcher is started only when no other runs.
LaunchAlone(l) == Launch(l) /\ \A m \in Launchers \ {l} : ~Running(m)

NextSeq ==
    \/ \E l \in Launchers : LaunchAlone(l) \/ Step(l)
    \/ Env

SpecSeq == Init /\ [][NextSeq]_vars

\* ------------------------------------------- the alert monitor launcher

\* A launcher that records its child in the ledger as save_pids does.
RecordsChild(p) == File(<<TextWrite(FormatPid(p))>>)

\* The ledger after the alert monitor launcher spawned process p: the
\* script contains no file operation at all.
AfterAlertSpawn(p) == ledger

\* subprocess.Popen of the monitor, part_000 lines 19-28; a raised OSError
\* is caught nowhere and ends the launcher with status 1.
alert_spawn ==
    /\ apc = "idle"
    /\ \E p \in SpawnResults :
         IF p # 0
         THEN /\ proc' = [proc EXCEPT ![p] = [kind |-> "amon", owner |-> AlertLauncher,
                                               status |-> 0]]
              /\ alert_proc' = p
              /\ ledger' = AfterAlertSpawn(p)
              /\ apc' = "wait"
         ELSE /\ apc' = "failed"
              /\ UNCHANGED <<proc, alert_proc, ledger>>
    /\ UNCHANGED <<pc, portHolder, dashboard_proc, monitor_proc, snap, buf,
                   tried, reclaim, log_file, returncode, exitCode, writer, kept>>

\* proc.wait(), part_000 line 31: returns once the monitor has exited; the
\* script ends and its handle is closed.
alert_wait ==
    /\ apc = "wait"
    /\ proc[alert_proc].kind = "zombie"
    /\ apc' = "done"
    /\ proc' = AfterLauncherEnd(proc, AlertLauncher)
    /\ UNCHANGED <<alert_proc, pc, ledger, portHolder, dashboard_proc, monitor_proc,
                   snap, buf, tried, reclaim, log_file, returncode, exitCode,
                   writer, kept>>

\* The alert monitor launcher is killed from outside while it waits.
alert_killed ==
    /\ apc = "wait"
    /\ apc' = "killed"
    /\ proc' = AfterLauncherEnd(proc, AlertLauncher)
    /\ UNCHANGED <<alert_proc, pc, ledger, portHolder, dashboard_proc, monitor_proc,
                   snap, buf, tried, reclaim, log_file, returncode, exitCode,
                   writer, kept>>

AlertStep == alert_spawn \/ alert_wait \/ alert_killed

\* The dashboard launcher, one session at a time, next to the alert monitor
\* launcher.
NextAlert ==
    \/ \E l \in Launchers : LaunchAlone(l) \/ Step(l)
    \/ Env
    \/ AlertStep

SpecAlert == Init /\ [][NextAlert]_vars

\* The wait and the teardown of launcher l, lines 104-112.
Teardown(l) ==
    \/ dashboard_proc_wait(l)
    \/ monitor_proc_terminate(l)
    \/ log_file_close(l)
    \/ remove_pid_file(l)

\* The script is straight-line code: once wait() can return, each of the
\* lines 104-112 is executed as soon as the one before it has returned.
SpecSeqFair == SpecSeq /\ \A l \in Launchers : WF_vars(Teardown(l))

\* ================================================================ claims

\* The launcher has left kill_stale and has not ended.
PastReaping(l) ==
    pc[l] \in {"spawn_dash", "spawn_mon", "save_open", "save_write", "settle",
               "wait", "terminate", "close_log", "rm_pid"}

\* The running processes of one kind.
LiveOfKind(k) == {p \in PIDs : proc[p].kind = k}

\* The identifiers the well-formed records of a ledger name.
WellFormedPids(records) ==
    {IntOf(Strip(records[i])) : i \in {j \in 1..Len(records) : Parses(records[j])}}

AllParse(records) == \A i \in 1..Len(records) : Parses(records[i])

\* The steps of kill_stale and of the teardown.
CleanupPcs ==
    {"ks_open", "ks_read", "ks_remove", "ks_port", "ks_sleep", "terminate",
     "close_log", "rm_pid"}

\* C1: while a launcher is past its reaping step, at most one dashboard and
\* at most one monitor spawned by a launcher are alive, whatever the
\* sequence and interleaving of launcher invocations and kills.
C1_AtMostOneInstance ==
    (\E l \in Launchers : PastReaping(l))
        => /\ Cardinality(LiveOfKind("dash")) <= 1
           /\ Cardinality(LiveOfKind("mon")) <= 1

\* C2: a launch whose spawn failed has ended with an error and has left no
\* process it spawned alive (the dashboard is rolled back when the spawn of
\* the monitor fails).
C2_RollbackOnFailedSpawn ==
    \A l \in Launchers :
        pc[l] = "failed"
            => /\ exitCode[l] # <<NormalExit>>
               /\ \A p \in PIDs : proc[p].owner = l => ~Alive(p)

\* C3: when a session reaches its first spawn, no dashboard or monitor of an
\* earlier session is alive, whether that session shut down or its launcher
\* was killed at some point (sessions that ended on a failed spawn are left
\* to C2). Sessions run one after another here, so every child alive at that
\* point is an earlier session's.
C3_NoStaleChildAtFirstSpawn ==
    \A l \in Launchers :
        pc[l] = "spawn_dash" /\ (\A m \in Launchers : pc[m] # "failed")
            => LiveOfKind("dash") \cup LiveOfKind("mon") = {}

\* C4, as claimed: the step that completes a session's shutdown leaves the
\* ledger absent or empty.
C4_LedgerGoneAfterShutdown ==
    [][\A l \in Launchers :
          pc[l] = "rm_pid" /\ pc'[l] = "done"
              => ~ledger'.exists \/ ledger'.lines = <<>>]_vars

\* C4, amended: the step that completes a session's shutdown leaves the
\* ledger absent, whether or not the file still existed, unless another
\* launcher holds the file open at that moment (the removal then fails, the
\* failure is swallowed and the file stays).
C4_LedgerGoneUnlessHeldOpen ==
    [][\A l \in Launchers :
          pc[l] = "rm_pid" /\ pc'[l] = "done"
              => ~ledger'.exists \/ OpenByOther(l)]_vars

\* A session has shut down and the ledger is absent, while a second
\* launcher, started meanwhile, has its own reaper behind it.
C4_Witness ==
    /\ pc[1] = "done"
    /\ exitCode[1] = <<NormalExit>>
    /\ pc[2] \in {"ks_port", "ks_sleep", "spawn_dash"}
    /\ ~ledger.exists

\* C5: with sessions run one after another, the reaper's os.remove never
\* raises (the file is there and nobody holds it), and once it has run the
\* ledger is deleted; this holds for every ledger found, so for every ledger
\* of N >= 0 records whose processes have all exited.
C5_ReapCompletesAndClears ==
    \A l \in Launchers :
        /\ pc[l] = "ks_remove" => CanRemove(l)
        /\ pc[l] = "ks_port" => ~ledger.exists

\* The reaper has handled a ledger of two well-formed records, has called
\* os.kill for both, no process exists, and the ledger is deleted.
C5_Witness ==
    \E l \in Launchers :
        /\ pc[l] = "ks_port"
        /\ Len(snap[l]) = 2
        /\ AllParse(snap[l])
        /\ Cardinality(tried[l]) = 2
        /\ \A p \in PIDs : proc[p] = Free
        /\ ~ledger.exists

\* C6: when the read loop is over, os.kill has been called for every
\* well-formed record of the ledger, also for those after a malformed one.
C6_SkipsMalformedRecords ==
    \A l \in Launchers :
        pc[l] \in {"ks_remove", "ks_port"} => WellFormedPids(snap[l]) \subseteq tried[l]

\* C7: for a ledger of well-formed records, when the read loop is over
\* os.kill has been called for every record, whatever each call did, and
\* after the removal that follows the ledger is gone.
C7_KillsAllThenClears ==
    \A l \in Launchers :
        /\ pc[l] \in {"ks_remove", "ks_port"} /\ AllParse(snap[l])
              => tried[l] = WellFormedPids(snap[l])
        /\ pc[l] = "ks_port" /\ snap[l] # <<>> => ~ledger.exists

\* The first record names an unrelated process that os.kill could not end
\* (it is still running); the second record was tried all the same, and the
\* ledger is removed.
C7_Witness ==
    \E l \in Launchers :
        /\ pc[l] = "ks_port"
        /\ Len(snap[l]) = 2
        /\ AllParse(snap[l])
        /\ proc[IntOf(Strip(snap[l][1]))].kind = "other"
        /\ IntOf(Strip(snap[l][2])) # IntOf(Strip(snap[l][1]))
        /\ IntOf(Strip(snap[l][2])) \in tried[l]
        /\ ~ledger.exists

\* C8: no step of the reaper or of the teardown ends the launcher with an
\* error.
C8_CleanupNeverAborts ==
    [][\A l \in Launchers : pc[l] \in CleanupPcs => pc'[l] # "failed"]_vars

C10_ExitCodePropagates ==
    \A l \in Launchers : pc[l] = "done" => exitCode[l] = returncode[l]

\* C10, amended: a session that ran to its end exits with status 0 whatever
\* the exit status of its dashboard; a session that failed exits with a
\* non-zero status.
C10_ExitCodeIgnoresDashboard ==
    \A l \in Launchers :
        /\ pc[l] = "done" => exitCode[l] = <<0>>
        /\ pc[l] = "failed" => exitCode[l] # <<>> /\ exitCode[l] # <<0>>

\* The dashboard exited with status 1 and its launcher with status 0.
C10_Witness ==
    \E l \in Launchers :
        pc[l] = "done" /\ returncode[l] = <<1>> /\ exitCode[l] = <<0>>

\* C11: a reaper that opens and reads the ledger while another launcher is
\* between the open and the close of its save_pids never finds the file
\* empty: it reads complete content, old or new.
C11_ReaderSeesOldOrNew ==
    [][\A l \in Launchers :
          /\ pc[l] = "ks_open" /\ pc'[l] \in {"ks_read", "ks_remove"}
          /\ \E m \in Launchers \ {l} : pc[m] = "save_write"
          => snap'[l] # <<>>]_vars

\* C12, as claimed: when a reaper finds a non-empty ledger that a launcher
\* wrote, that launcher's session ended abnormally.
C12_NonEmptyMeansAbnormalEnd ==
    [][\A l \in Launchers :
          pc[l] = "ks_open" /\ pc'[l] = "ks_read" /\ writer # 0
              => pc[writer] \in {"killed", "failed"}]_vars

\* C12, amended: when a reaper finds a non-empty ledger that a launcher
\* wrote, that launcher has not removed it: it ended abnormally, or it is
\* still running, or the os.remove of its teardown raised.
C12_NonEmptyMeansNotRemoved ==
    [][\A l \in Launchers :
          pc[l] = "ks_open" /\ pc'[l] = "ks_read" /\ writer # 0
              => \/ pc[writer] \in {"killed", "failed"}
                 \/ Running(writer)
                 \/ pc[writer] = "done" /\ kept[writer]]_vars

\* A second launcher has read the records of a session that is waiting on
\* its dashboard.
C12_Witness ==
    \E l \in Launchers :
        /\ pc[l] = "ks_read"
        /\ writer \in Launchers \ {l}
        /\ pc[writer] = "wait"
        /\ Len(snap[l]) = 2

\* The steps of kill_stale.
ReapPcs == {"ks_open", "ks_read", "ks_remove", "ks_port", "ks_sleep"}

\* Launcher l takes a step of its reaper.
ReapStep(l) == pc[l] \in ReapPcs /\ pc'[l] # pc[l] /\ pc'[l] # "killed"

\* C13: a reap that finds the ledger absent or empty and nobody on the port
\* (as after an earlier reap) terminates no process, leaves port and an
\* absent ledger as they are, and ends with the ledger absent.
C13_SecondReapIsNoOp ==
    [][\A l \in Launchers :
          /\ ReapStep(l)
          /\ ~ledger.exists \/ ledger.lines = <<>>
          /\ pc[l] = "ks_port" => portHolder = 0
          => /\ proc' = proc
             /\ portHolder' = portHolder
             /\ ~ledger.exists => ledger' = ledger
             /\ pc'[l] = "ks_sleep" => ~ledger'.exists]_vars

\* After the reap of launcher 1, launcher 2 has reaped in turn: it found no
\* ledger, its port command ran and found nobody, and nothing has changed.
C13_Witness ==
    /\ pc[1] = "killed"
    /\ pc[2] = "ks_sleep"
    /\ reclaim[2] = [outcome |-> "stopped", victim |-> 0, kind |-> "free"]
    /\ ~ledger.exists
    /\ \A p \in PIDs : proc[p] = Free

\* The order of the reaper's cycle: terminate by ledger (ks_open, ks_read),
\* clear the ledger (ks_remove), reclaim the port (ks_port), settle
\* (ks_sleep); a launcher that finds no ledger starts at the port. The
\* cycle is left early only by the launcher's death.
ReapOrder ==
    {<<"idle", "ks_open">>, <<"idle", "ks_port">>, <<"ks_open", "ks_read">>,
     <<"ks_open", "ks_remove">>, <<"ks_read", "ks_remove">>,
     <<"ks_remove", "ks_port">>, <<"ks_port", "ks_sleep">>,
     <<"ks_sleep", "spawn_dash">>}
        \cup {<<p, "killed">> : p \in ReapPcs} \cup {<<"ks_remove", "failed">>}

\* C14: the reaper's steps are taken in the order of its cycle, the first
\* spawn is reached only from the end of the cycle, and no process of a
\* session comes into being before that.
C14_ReapCompletesBeforeSpawn ==
    [][\A l \in Launchers :
          /\ pc[l] \in ReapPcs \cup {"idle"} /\ pc'[l] # pc[l]
                => <<pc[l], pc'[l]>> \in ReapOrder
          /\ pc'[l] = "spawn_dash" /\ pc[l] # "spawn_dash" => pc[l] = "ks_sleep"
          /\ \A p \in PIDs :
                proc'[p].owner = l /\ proc[p].owner # l
                    => pc[l] \in {"spawn_dash", "spawn_mon"}]_vars

\* Launcher 2 has spawned its dashboard after its reaper ended both
\* children of launcher 1 by the ledger and cleared the ledger.
C14_Witness ==
    /\ pc[2] = "spawn_mon"
    /\ proc[dashboard_proc[2]].kind = "dash"
    /\ pc[1] = "wait"
    /\ proc[dashboard_proc[1]].kind = "zombie"
    /\ proc[monitor_proc[1]].kind = "zombie"
    /\ ~ledger.exists

\* Whether the lines of a ledger file are exactly the records of the given
\* identifiers, in their order, as the reaper would read them.
HoldsExactly(lines, pids) ==
    /\ Len(lines) = Len(pids)
    /\ \A i \in 1..Len(lines) :
          /\ Parses(TextRead(lines[i]))
          /\ IntOf(Strip(TextRead(lines[i]))) = pids[i]

\* C15: the ledger is created or given content only by the save_pids of a
\* launcher that has spawned both children, which is that launcher's next
\* step after the second spawn; right after the write the file holds
\* exactly the PIDs of the dashboard and of the monitor, in that order; a
\* launcher whose spawn failed leaves the ledger as it is.
C15_LedgerWrittenAfterSpawns ==
    [][/\ ledger' # ledger /\ ledger'.exists
          => \E l \in Launchers :
                /\ pc[l] \in {"save_open", "save_write"} /\ pc'[l] # pc[l]
                /\ proc[dashboard_proc[l]].owner = l
                /\ proc[monitor_proc[l]].owner = l
       /\ \A l \in Launchers :
             /\ pc[l] = "spawn_mon" /\ monitor_proc'[l] # 0
                   => pc'[l] = "save_open"
             /\ pc'[l] = "save_open" => pc[l] \in {"spawn_mon", "save_open"}
             /\ pc[l] = "save_write" /\ pc'[l] = "settle"
                   => /\ ledger'.exists
                      /\ HoldsExactly(ledger'.lines,
                                      <<dashboard_proc[l], monitor_proc[l]>>)
             /\ pc[l] \in {"spawn_dash", "spawn_mon"} /\ pc'[l] = "failed"
                   => ledger' = ledger]_vars


\* --- C16 ---------------------------------------------------------------

\* The launcher has run its script to the end: the monitor it spawned runs
\* no more, its log file is closed and the ledger is gone.
TornDown(l) ==
    /\ pc[l] = "done"
    /\ ~log_file[l]
    /\ ~ledger.exists
    /\ \A p \in PIDs : ~(proc[p].owner = l /\ proc[p].kind = "mon")

\* C16: with one session at a time and the launcher's lines 104-112 executed
\* fairly, whenever the dashboard of a launcher that waits at line 104 has
\* exited, with whatever status, the launcher eventually has terminated its
\* monitor, closed the log file, removed the ledger and ended -- unless the
\* launcher process itself is killed first, after which it runs no line.
C16_TeardownFollowsPrimaryExit ==
    \A l \in Launchers :
        (pc[l] = "wait" /\ PrimaryExited(l)) ~> (TornDown(l) \/ pc[l] = "killed")

\* The launcher has ended after a dashboard that exited with status 1 while
\* the monitor was running; everything it had started or written is gone.
C16_Witness ==
    /\ pc[1] = "done"
    /\ returncode[1] = <<1>>
    /\ exitCode[1] = <<NormalExit>>
    /\ TornDown(1)
    /\ \A p \in PIDs : proc[p] = Free
    /\ pc[2] = "idle"


\* --- C17 ---------------------------------------------------------------

\* The positions of the teardown, lines 105-112.
TeardownPcs == {"terminate", "close_log", "rm_pid"}

\* The dashboard launcher l spawned has not exited.
DashboardRuns(l) == proc[dashboard_proc[l]].kind = "dash"

\* C17: a launcher is in its teardown only after its dashboard has exited,
\* and it enters the teardown only from the wait of line 104. While the
\* dashboard of a launcher runs, no step of that launcher ends its monitor,
\* closes its log file or removes the ledger, and the launcher does not end
\* unless it is killed from outside; this holds also when its monitor has
\* exited.
C17_SessionEndsOnlyByPrimaryExit ==
    [][\A l \in Launchers :
          /\ pc'[l] \in TeardownPcs => ~DashboardRuns(l)'
          /\ pc'[l] \in TeardownPcs /\ pc[l] \notin TeardownPcs
                => pc[l] = "wait" /\ ~DashboardRuns(l)
          /\ pc[l] \in {"settle", "wait"} /\ DashboardRuns(l) /\ pc'[l] # pc[l]
                => /\ pc'[l] \in {"wait", "killed"}
                   /\ ledger' = ledger
                   /\ log_file'[l] = log_file[l] \/ pc'[l] = "killed"
                   /\ (proc[monitor_proc[l]].kind = "mon" =>
                          proc'[monitor_proc[l]].kind = "mon")]_vars

\* The monitor of a waiting launcher has exited while its dashboard runs and
\* holds the port: the launcher still waits, with the log file open and its
\* two records in the ledger.
C17_Witness ==
    /\ pc[1] = "wait"
    /\ proc[dashboard_proc[1]].kind = "dash"
    /\ portHolder = dashboard_proc[1]
    /\ proc[monitor_proc[1]].kind = "zombie"
    /\ log_file[1]
    /\ ledger.exists
    /\ HoldsExactly(ledger.lines, <<dashboard_proc[1], monitor_proc[1]>>)


\* --- C18 ---------------------------------------------------------------

\* The identifiers the reaper would find in the ledger as it is now.
Listed == IF ledger.exists THEN WellFormedPids(ReadLines(ledger.lines)) ELSE {}

\* The running children of the launchers other than l.
LiveChildrenOfOthers(l) ==
    {p \in PIDs : proc[p].kind \in {"dash", "mon"} /\ proc[p].owner # l}

\* C18: the os.remove of the teardown (line 110) of a launcher whose
\* dashboard was killed by a reaper never removes a ledger that lists a
\* running child of another launcher.
C18_TeardownRemovesOnlyOwnLedger ==
    [][\A l \in Launchers :
          /\ pc[l] = "rm_pid" /\ pc'[l] = "done"
          /\ returncode[l] = <<KillSig>>
          /\ ledger.exists /\ ~ledger'.exists
          => Listed \cap LiveChildrenOfOthers(l) = {}]_vars


\* --- C19 ---------------------------------------------------------------

\* Launcher l executes one pass of the loop of kill_stale, lines 40-45.
LoopPass(l) == pc[l] = "ks_read" /\ buf'[l] # buf[l] /\ pc'[l] # "killed"

\* C19: a pass of the reaper's loop over a ledger that a launcher wrote
\* never ends a process that no launcher spawned and that does not hold the
\* port.
C19_ReaperKillsOnlyChildrenOrPortHolder ==
    [][\A l \in Launchers : \A p \in PIDs :
          LoopPass(l) /\ writer # 0 /\ proc[p].kind = "other" /\ portHolder # p
          => proc'[p].kind = "other"]_vars


\* --- C20 ---------------------------------------------------------------

\* The monitor the alert monitor launcher spawned runs.
AlertMonitorRuns == alert_proc # 0 /\ proc[alert_proc].kind = "amon"

\* C20, as stated: a monitor started by the alert monitor launcher is never
\* listed in a ledger that a dashboard launcher wrote.
C20_AlertMonitorNeverListed ==
    AlertMonitorRuns /\ writer # 0 => alert_proc \notin Listed

\* C20: a step of the alert monitor launcher changes nothing but its own
\* position and its own child. It spawns one process, the monitor, and does
\* so once; it ends normally only from its wait and only after that child
\* has exited; it leaves the ledger, the port, the dashboard launchers and
\* every running process as they are. No write of the ledger by a dashboard
\* launcher records the identifier of the running monitor.
C20_AlertLauncherFrame ==
    [][/\ apc' # apc =>
            /\ ledger' = ledger
            /\ portHolder' = portHolder
            /\ <<pc, dashboard_proc, monitor_proc, log_file, writer>>'
                  = <<pc, dashboard_proc, monitor_proc, log_file, writer>>
            /\ \A p \in PIDs :
                  proc'[p] # proc[p] =>
                      \/ /\ apc = "idle" /\ apc' = "wait" /\ p = alert_proc'
                         /\ proc[p] = Free /\ proc'[p].kind = "amon"
                      \/ /\ apc = "wait" /\ p = alert_proc
                         /\ proc[p].kind = "zombie" /\ proc'[p] = Free
            /\ apc = "idle" => apc' \in {"wait", "failed"}
            /\ apc' = "wait" => Cardinality({p \in PIDs : proc'[p] # proc[p]}) = 1
            /\ apc' = "done" => apc = "wait" /\ proc[alert_proc].kind = "zombie"
       /\ apc' = apc => alert_proc' = alert_proc
       /\ AlertMonitorRuns /\ ledger' # ledger /\ ledger'.exists
            => alert_proc \notin Listed']_vars

\* The monitor of the alert monitor launcher runs next to a dashboard session
\* that was started after it and has recorded its own two children.
C20_Witness ==
    /\ apc = "wait"
    /\ AlertMonitorRuns
    /\ pc[1] = "wait"
    /\ proc[dashboard_proc[1]].kind = "dash"
    /\ proc[monitor_proc[1]].kind = "mon"
    /\ alert_proc < dashboard_proc[1]
    /\ writer = 1
    /\ HoldsExactly(ledger.lines, <<dashboard_proc[1], monitor_proc[1]>>)

====
